---------------------------- MODULE Spec2Model ----------------------------
(***************************************************************************)
(* Model of src/invoice_auditor.py: the credential accessor GigaChatAuth,  *)
(* the text normaliser TextCleaner.clean_pdf_text, the text acquisition    *)
(* PDFProcessor.extract_text, the reply recovery parse_json_robust, the    *)
(* validator validate_result and the retry loop InvoiceAuditor.audit.      *)
(*                                                                         *)
(* Reply texts are sequences of lexical tokens; the text a sequence stands *)
(* for is its tokens joined by one space.  The tokens hold no newline and  *)
(* no white space, so the newline repairs of extract_json_from_text        *)
(* (lines 377-385) leave every text of this domain as it is.               *)
(***************************************************************************)
EXTENDS Integers, Sequences, FiniteSets, TLC

-----------------------------------------------------------------------------
(* Program constants *)

\* Config.TOKEN_REFRESH_BUFFER_MINUTES
TOKEN_REFRESH_BUFFER_MINUTES == 5
\* timedelta(minutes=30): the lifetime assumed when the reply has no expires_at
DefaultLifetimeMinutes == 30
\* range(3): the attempts of the retry loop
MaxAttempts == 3
\* time.sleep(2) in the Timeout handler
TimeoutSleep == 2
\* time.sleep(1) in the generic handlers
ErrorSleep == 1
\* timeout=60 of the completion request
PostTimeout == 60
\* timeout=30 of the credential exchange
AuthTimeout == 30
\* the status the authorization endpoint must answer with
HttpOk == 200

\* The clock counts seconds.
Minutes(m) == m * 60

-----------------------------------------------------------------------------
(* JSON values, as json.loads builds them *)

JNull == [t |-> "null"]
JInt(n) == [t |-> "int", n |-> n]
JFloat(n) == [t |-> "float", n |-> n]
JStr(s) == [t |-> "str", s |-> s]
JList(items) == [t |-> "list", items |-> items]
JDict(d) == [t |-> "dict", d |-> d]

EmptyMap == <<>>
Put(m, k, v) == [x \in (DOMAIN m) \cup {k} |-> IF x = k THEN v ELSE m[x]]

\* Python truth value of a JSON value
Truthy(v) ==
    CASE v.t = "null" -> FALSE
      [] v.t \in {"int", "float"} -> v.n # 0
      [] v.t = "str" -> v.s # ""
      [] v.t = "list" -> v.items # <<>>
      [] v.t = "dict" -> DOMAIN v.d # {}

IsNumber(v) == v.t \in {"int", "float"}

-----------------------------------------------------------------------------
(* Tokens of a reply text *)

FIELDS == <<"invoice_number", "date", "supplier", "buyer", "amount", "vat",
            "vat_rate", "contract_number", "payment_date", "meter_number">>
FieldSet == {FIELDS[i] : i \in DOMAIN FIELDS}
NumericFields == {"amount", "vat", "vat_rate"}
NullableFields == {"contract_number", "payment_date", "meter_number"}

\* double-quoted string tokens and the string each holds
StrVal ==
    ("\"invoice_number\"" :> "invoice_number") @@ ("\"date\"" :> "date") @@
    ("\"supplier\"" :> "supplier") @@ ("\"buyer\"" :> "buyer") @@
    ("\"amount\"" :> "amount") @@ ("\"vat\"" :> "vat") @@
    ("\"vat_rate\"" :> "vat_rate") @@
    ("\"contract_number\"" :> "contract_number") @@
    ("\"payment_date\"" :> "payment_date") @@
    ("\"meter_number\"" :> "meter_number") @@
    ("\"A\"" :> "A") @@ ("\"\"" :> "") @@ ("\"100\"" :> "100") @@
    ("\"20\"" :> "20")
DQToks == DOMAIN StrVal
KeyTok(f) == CHOOSE k \in DQToks : StrVal[k] = f

\* single-quoted string tokens and what str.replace("'", '"') makes of them
Requoted == ("'amount'" :> "\"amount\"") @@ ("'A'" :> "\"A\"")
SQToks == DOMAIN Requoted

\* number tokens; "1.2.3" matches [0-9.]+ and is no number
NumVal == ("100" :> 100) @@ ("20" :> 20) @@ ("25" :> 25) @@ ("0" :> 0)
NumToks == DOMAIN NumVal
DigitToks == NumToks \cup {"1.2.3"}

\* the markdown fence markers: three backquotes, bare and followed by json
FenceToks == {"<fence>", "<fence>json"}
Tokens == {"{", "}", "[", "]", ",", ":", "null"} \cup DQToks \cup SQToks
            \cup DigitToks \cup FenceToks

-----------------------------------------------------------------------------
(* Sequence helpers *)

\* str.find / str.rfind of a one-character token: 0 when absent (indices from 1)
FindFirst(s, c) ==
    IF \E i \in DOMAIN s : s[i] = c
    THEN CHOOSE i \in DOMAIN s : s[i] = c /\ \A j \in 1..(i - 1) : s[j] # c
    ELSE 0
FindLast(s, c) ==
    IF \E i \in DOMAIN s : s[i] = c
    THEN CHOOSE i \in DOMAIN s : s[i] = c /\ \A j \in (i + 1)..Len(s) : s[j] # c
    ELSE 0

-----------------------------------------------------------------------------
(* InvoiceAuditor.extract_json_from_text *)

extract_json_from_text(text) ==
    LET stripped == SelectSeq(text, LAMBDA tok : tok \notin FenceToks)
        start_idx == FindFirst(stripped, "{")
        end_idx == FindLast(stripped, "}")
    IN  IF start_idx >= 1 /\ end_idx > start_idx
        THEN SubSeq(stripped, start_idx, end_idx)
        ELSE stripped

-----------------------------------------------------------------------------
(* json.loads on a token sequence *)

ParseFail == [ok |-> FALSE]
Parsed(v, next) == [ok |-> TRUE, val |-> v, next |-> next]

RECURSIVE ParseValue(_, _), ParseMembers(_, _, _), ParseElements(_, _, _)
ParseValue(s, i) ==
    IF i > Len(s) THEN ParseFail
    ELSE IF s[i] \in NumToks THEN Parsed(JInt(NumVal[s[i]]), i + 1)
    ELSE IF s[i] \in DQToks THEN Parsed(JStr(StrVal[s[i]]), i + 1)
    ELSE IF s[i] = "null" THEN Parsed(JNull, i + 1)
    ELSE IF s[i] = "{"
         THEN IF i + 1 <= Len(s) /\ s[i + 1] = "}"
              THEN Parsed(JDict(EmptyMap), i + 2)
              ELSE ParseMembers(s, i + 1, EmptyMap)
    ELSE IF s[i] = "["
         THEN IF i + 1 <= Len(s) /\ s[i + 1] = "]"
              THEN Parsed(JList(<<>>), i + 2)
              ELSE ParseElements(s, i + 1, <<>>)
    ELSE ParseFail

\* "key" : value, then "," and more or "}"; a repeated key keeps its last value
ParseMembers(s, i, acc) ==
    IF i + 1 > Len(s) \/ s[i] \notin DQToks \/ s[i + 1] # ":" THEN ParseFail
    ELSE LET v == ParseValue(s, i + 2) IN
         IF ~v.ok \/ v.next > Len(s) THEN ParseFail
         ELSE IF s[v.next] = "}"
              THEN Parsed(JDict(Put(acc, StrVal[s[i]], v.val)), v.next + 1)
         ELSE IF s[v.next] = ","
              THEN ParseMembers(s, v.next + 1, Put(acc, StrVal[s[i]], v.val))
         ELSE ParseFail

ParseElements(s, i, acc) ==
    LET v == ParseValue(s, i) IN
    IF ~v.ok \/ v.next > Len(s) THEN ParseFail
    ELSE IF s[v.next] = "]" THEN Parsed(JList(Append(acc, v.val)), v.next + 1)
    ELSE IF s[v.next] = "," THEN ParseElements(s, v.next + 1, Append(acc, v.val))
    ELSE ParseFail

\* ok = FALSE stands for json.JSONDecodeError (trailing text is "Extra data")
json_loads(s) ==
    LET r == ParseValue(s, 1) IN
    IF r.ok /\ r.next = Len(s) + 1 THEN [ok |-> TRUE, val |-> r.val] ELSE ParseFail


-----------------------------------------------------------------------------
(* InvoiceAuditor.parse_json_robust *)

RECURSIVE DropCommaBefore(_, _, _)
\* re.sub(r',\s*X', 'X', s): every "," whose next token is closer goes
DropCommaBefore(s, i, closer) ==
    IF i > Len(s) THEN <<>>
    ELSE IF s[i] = "," /\ i < Len(s) /\ s[i + 1] = closer
         THEN DropCommaBefore(s, i + 1, closer)
         ELSE <<s[i]>> \o DropCommaBefore(s, i + 1, closer)

\* str.replace("'", '"')
ReplaceQuotes(s) == [i \in DOMAIN s |-> IF s[i] \in SQToks THEN Requoted[s[i]] ELSE s[i]]

\* step 3: trailing commas before } and before ], then the quotes
Repair(json_str) ==
    ReplaceQuotes(DropCommaBefore(DropCommaBefore(json_str, 1, "}"), 1, "]"))

\* the tokens the value group of a field's pattern can match
ValueToks(key) ==
    IF key \in NumericFields THEN DigitToks
    ELSE IF key \in NullableFields THEN DQToks \cup {"null"}
    ELSE DQToks

\* re.search(patterns[key], json_str): the leftmost match, 0 when none
SearchField(s, key) ==
    LET Hit(i) == /\ i + 2 <= Len(s)
                  /\ s[i] = KeyTok(key)
                  /\ s[i + 1] = ":"
                  /\ s[i + 2] \in ValueToks(key)
    IN  IF \E i \in DOMAIN s : Hit(i)
        THEN CHOOSE i \in DOMAIN s : Hit(i) /\ \A j \in 1..(i - 1) : ~Hit(j)
        ELSE 0

\* lines 445-453: what a matched field is set to
SalvagedValue(key, tok) ==
    LET group1 == IF tok \in DQToks THEN StrVal[tok]
                  ELSE IF tok \in DigitToks THEN tok
                  ELSE ""
    IN  IF group1 = "" THEN JNull
        ELSE IF key \in NumericFields
             THEN (IF tok \in NumToks THEN JFloat(NumVal[tok]) ELSE JNull)
             ELSE JStr(group1)

\* step 4: every field starts unset and is set when its pattern matches
Salvage(s) ==
    JDict([key \in FieldSet |->
             IF SearchField(s, key) = 0 THEN JNull
             ELSE SalvagedValue(key, s[SearchField(s, key) + 2])])

\* the tier that produces the result: 1 strict, 2 repaired, 3 salvaged
parse_tier(text) ==
    LET json_str == extract_json_from_text(text) IN
    IF json_loads(json_str).ok THEN 1
    ELSE IF json_loads(Repair(json_str)).ok THEN 2
    ELSE 3

parse_json_robust(text) ==
    LET json_str == extract_json_from_text(text) IN
    IF json_loads(json_str).ok THEN json_loads(json_str).val
    ELSE IF json_loads(Repair(json_str)).ok THEN json_loads(Repair(json_str)).val
    ELSE Salvage(Repair(json_str))

-----------------------------------------------------------------------------
(* InvoiceAuditor.validate_result *)

REQUIRED_FIELDS == {"invoice_number", "date", "supplier", "buyer", "amount", "vat"}

\* data.get(key, 0)
DictGet(data, key) == IF key \in DOMAIN data.d THEN data.d[key] ELSE JInt(0)

\* the fields the loop of lines 461-463 reports
MissingFields(data) ==
    {f \in REQUIRED_FIELDS : f \notin DOMAIN data.d \/ data.d[f] = JNull}

\* the type of a * b in Python, "TypeError" when the operands do not multiply
ProductType(a, b) ==
    IF IsNumber(a) /\ IsNumber(b) THEN "number"
    ELSE IF a.t \in {"str", "list"} /\ b.t = "int" THEN a.t
    ELSE IF a.t = "int" /\ b.t \in {"str", "list"} THEN b.t
    ELSE "TypeError"

\* amount and vat and vat_rate
AllTruthy(data) ==
    /\ Truthy(DictGet(data, "amount"))
    /\ Truthy(DictGet(data, "vat"))
    /\ Truthy(DictGet(data, "vat_rate"))

\* lines 471-472 raise TypeError: the product is divided by 100 and subtracted
\* from vat, which only numbers allow
ValidateRaises(data) ==
    /\ AllTruthy(data)
    /\ \/ ProductType(DictGet(data, "amount"), DictGet(data, "vat_rate")) # "number"
       \/ ~IsNumber(DictGet(data, "vat"))

\* abs(vat - round(amount * vat_rate / 100, 2)) > 0.01, in hundredths: the numbers
\* of the token alphabet make amount * vat_rate / 100 a multiple of 0.25, which
\* binary floating point holds exactly
VatMismatch(data) ==
    /\ AllTruthy(data)
    /\ ~ValidateRaises(data)
    /\ LET diff == 100 * DictGet(data, "vat").n
                     - DictGet(data, "amount").n * DictGet(data, "vat_rate").n
       IN  (IF diff < 0 THEN -diff ELSE diff) > 1

\* return data
validate_result(data) == data

-----------------------------------------------------------------------------
(* TextCleaner.clean_pdf_text *)
(* A text is a sequence of characters.  A Cyrillic letter is written as    *)
(* its Latin transliteration: a b g k l n o r s t u for the letters        *)
(* U+0430 U+0431 U+0433 U+043A U+043B U+043D U+043E U+0440 U+0441 U+0442   *)
(* U+0443, ye for U+0435, eh for U+044D, ch for U+0447, yo for U+0451.     *)
(* "L" is a Latin letter, "1" a digit, "," and "." punctuation, " " and    *)
(* "\n" white space.                                                       *)

CyrillicLetters == {"a", "b", "g", "k", "l", "n", "o", "r", "s", "t", "u",
                    "ye", "eh", "ch", "yo"}
Whitespace == {" ", "\n"}
Punctuation == {",", ".", ";", ":"}
Digits == {"1"}

\* the index of the first character at or after i that is no white space
RECURSIVE SkipSpace(_, _)
SkipSpace(s, i) ==
    IF i <= Len(s) /\ s[i] \in Whitespace THEN SkipSpace(s, i + 1) ELSE i

\* re.sub(r'([letter])\s+([letter])', r'\1\2', s) from index i on: matches are
\* taken leftmost and do not overlap, the scan goes on after the second letter
RECURSIVE JoinLetters(_, _)
JoinLetters(s, i) ==
    IF i > Len(s) THEN <<>>
    ELSE LET j == SkipSpace(s, i + 1) IN
         IF /\ s[i] \in CyrillicLetters
            /\ j > i + 1
            /\ j <= Len(s)
            /\ s[j] \in CyrillicLetters
         THEN <<s[i], s[j]>> \o JoinLetters(s, j + 1)
         ELSE <<s[i]>> \o JoinLetters(s, i + 1)

\* re.sub(r'\s+([,.;:])', r'\1', s) from index i on
RECURSIVE DropSpaceBeforePunct(_, _)
DropSpaceBeforePunct(s, i) ==
    IF i > Len(s) THEN <<>>
    ELSE LET j == SkipSpace(s, i) IN
         IF j > i /\ j <= Len(s) /\ s[j] \in Punctuation
         THEN <<s[j]>> \o DropSpaceBeforePunct(s, j + 1)
         ELSE <<s[i]>> \o DropSpaceBeforePunct(s, i + 1)

\* pat occurs in s at index i
OccursAt(s, i, pat) ==
    /\ i + Len(pat) - 1 <= Len(s)
    /\ \A k \in 1..Len(pat) : s[i + k - 1] = pat[k]

\* re.sub of a literal pattern from index i on; with guarded, a match needs no
\* digit right before it and none right after it: (?<![0-9]) and (?![0-9])
RECURSIVE ReplaceLiteral(_, _, _, _, _)
ReplaceLiteral(s, i, pat, rep, guarded) ==
    IF i > Len(s) THEN <<>>
    ELSE IF /\ OccursAt(s, i, pat)
            /\ guarded => /\ (i > 1 => s[i - 1] \notin Digits)
                          /\ (i + Len(pat) <= Len(s) => s[i + Len(pat)] \notin Digits)
         THEN rep \o ReplaceLiteral(s, i + Len(pat), pat, rep, guarded)
         ELSE <<s[i]>> \o ReplaceLiteral(s, i + 1, pat, rep, guarded)

\* re.sub(r'  +', ' ', s) from index i on
RECURSIVE SkipBlank(_, _)
SkipBlank(s, i) == IF i <= Len(s) /\ s[i] = " " THEN SkipBlank(s, i + 1) ELSE i
RECURSIVE CollapseSpaces(_, _)
CollapseSpaces(s, i) ==
    IF i > Len(s) THEN <<>>
    ELSE IF SkipBlank(s, i) >= i + 2
         THEN <<" ">> \o CollapseSpaces(s, SkipBlank(s, i))
         ELSE <<s[i]>> \o CollapseSpaces(s, i + 1)

\* str.strip()
RECURSIVE Strip(_)
Strip(s) ==
    IF s = <<>> THEN s
    ELSE IF s[1] \in Whitespace THEN Strip(Tail(s))
    ELSE IF s[Len(s)] \in Whitespace THEN Strip(SubSeq(s, 1, Len(s) - 1))
    ELSE s

\* lines 202-207: the split words, in the order they are repaired
FixOt(s) == ReplaceLiteral(s, 1, <<"o", " ", "t">>, <<"o", "t">>, TRUE)
FixRub(s) == ReplaceLiteral(s, 1, <<"r", " ", "u", "b">>, <<"r", "u", "b">>, FALSE)
FixElektr(s) ==
    ReplaceLiteral(s, 1, <<"eh", " ", "l", "ye", "k", "t", "r">>,
                   <<"eh", "l", "ye", "k", "t", "r">>, FALSE)
FixEnerg(s) ==
    ReplaceLiteral(s, 1, <<"eh", " ", "n", "ye", "r", "g">>,
                   <<"eh", "n", "ye", "r", "g">>, FALSE)
FixSchet(s) ==
    ReplaceLiteral(s, 1, <<"s", "ch", " ", "yo", " ", "t">>,
                   <<"s", "ch", "yo", "t">>, FALSE)
FixOsnab(s) ==
    ReplaceLiteral(s, 1, <<"o", " ", "s", "n", "a", "b">>,
                   <<"o", "s", "n", "a", "b">>, FALSE)

clean_pdf_text(text) ==
    Strip(CollapseSpaces(
        FixOsnab(FixSchet(FixEnerg(FixElektr(FixRub(FixOt(
            DropSpaceBeforePunct(JoinLetters(text, 1), 1))))))), 1))

-----------------------------------------------------------------------------
(* Bounds of the model *)

\* SpecAuth: the clock stops advancing at MaxClock seconds
MaxClock == 1800
\* SpecAuth: the authorization endpoint issues at most MaxIssued tokens
MaxIssued == 2
\* SpecParse: every reply text of at most MaxReplyLen tokens is tried
MaxReplyLen == 3
\* SpecClean: every text of at most MaxTextLen characters is tried
MaxTextLen == 5
\* SpecExtract: every document of at most MaxPages pages is tried
MaxPages == 3

-----------------------------------------------------------------------------
(* State *)

VARIABLES
    token,             \* GigaChatAuth._token: NoToken, or the n-th token issued
    token_expires_at,  \* GigaChatAuth._token_expires_at
    now,               \* datetime.now(), in seconds
    issued,            \* the tokens the authorization endpoint has issued
    lastAccess,        \* what the latest evaluation of GigaChatAuth.token did
    pc,                \* where audit stands
    attempt,           \* the loop variable of audit
    bearer,            \* the token the headers of the request being sent carry
    trace,             \* what audit has done: exchanges, requests and sleeps
    result,            \* how audit ended
    replyText,         \* parse_json_robust: the text handed to it
    parseStage,        \* "off", "input", "parsed", "validated"
    parsed,            \* what parse_json_robust returned
    validated,         \* validate_result: raised, value returned, mismatch warned
    cleanStage,        \* "off", or how often clean_pdf_text was applied
    cleanIn,           \* clean_pdf_text: the text handed to it
    cleanOnce,         \* clean_pdf_text(cleanIn)
    cleanTwice,        \* clean_pdf_text(cleanOnce)
    exDoc,             \* extract_text: the pages of the document
    exExists,          \* pdf_path.exists()
    exBackend,         \* "pymupdf" when HAVE_PYMUPDF, else "pdf2image"
    exPc,              \* where extract_text stands
    exIdx,             \* the page the running loop is at
    exText,            \* the page texts appended to text that are not blank
    exRendered,        \* the pages whose rendering was started, in order
    exOcrPages,        \* the pages recognition was started on, in order
    exResult           \* how extract_text ended

authVars == <<token, token_expires_at, now, issued, lastAccess>>
auditVars == <<pc, attempt, bearer, trace, result>>
parseVars == <<replyText, parseStage, parsed, validated>>
cleanVars == <<cleanStage, cleanIn, cleanOnce, cleanTwice>>
extractVars ==
    <<exDoc, exExists, exBackend, exPc, exIdx, exText, exRendered, exOcrPages, exResult>>
vars == <<authVars, auditVars, parseVars, cleanVars, extractVars>>

NoToken == 0
NoExpiry == [set |-> FALSE, at |-> 0]
ExpiresAt(t) == [set |-> TRUE, at |-> t]

-----------------------------------------------------------------------------
(* GigaChatAuth *)

\* replies of the authorization endpoint: the offset of expires_at from the clock
\* (past, inside the buffer, valid for one more second, an hour), no expires_at,
\* a rejection, no reply within the timeout
ExpiryOffsets == {0 - 60, Minutes(2), Minutes(TOKEN_REFRESH_BUFFER_MINUTES) + 1,
                  Minutes(60)}
AuthReplies ==
    [status : {HttpOk}, has_expires_at : {TRUE}, offset : ExpiryOffsets]
    \cup {[status |-> HttpOk, has_expires_at |-> FALSE, offset |-> 0],
          [status |-> 403, has_expires_at |-> FALSE, offset |-> 0],
          [status |-> 0, has_expires_at |-> FALSE, offset |-> 0]}

\* status 0: requests.post raised Timeout
ExchangeTimedOut(reply) == reply.status = 0
\* line 165
ExchangeRejected(reply) == reply.status # 0 /\ reply.status # HttpOk

\* lines 171-174
FetchedExpiry(reply) ==
    IF reply.has_expires_at THEN ExpiresAt(now + reply.offset)
    ELSE ExpiresAt(now + Minutes(DefaultLifetimeMinutes))

\* lines 183 and 185: the accessor fetches
NeedsFetch ==
    \/ token = NoToken
    \/ ~token_expires_at.set
    \/ now >= token_expires_at.at - Minutes(TOKEN_REFRESH_BUFFER_MINUTES)

\* a token with expiry e is valid at the clock's time
ValidNow(e) == e.set /\ now < e.at - Minutes(TOKEN_REFRESH_BUFFER_MINUTES)

NoAccess == [kind |-> "none", tok |-> NoToken, fetched |-> FALSE, needed |-> FALSE,
             valid |-> FALSE]
Returned(tok, fetched, needed, e) ==
    [kind |-> "return", tok |-> tok, fetched |-> fetched, needed |-> needed,
     valid |-> ValidNow(e)]
Raised(exc, needed) ==
    [kind |-> exc, tok |-> NoToken, fetched |-> TRUE, needed |-> needed,
     valid |-> FALSE]

\* what the exchange lasts: the whole timeout when no reply comes
FetchElapsed(reply) == IF ExchangeTimedOut(reply) THEN AuthTimeout ELSE 0

\* GigaChatAuth.token with no fetch: the cached token is returned
TokenCached ==
    /\ ~NeedsFetch
    /\ lastAccess' = Returned(token, FALSE, NeedsFetch, token_expires_at)
    /\ UNCHANGED <<token, token_expires_at, issued>>

\* GigaChatAuth.token with _fetch_token answered by reply: the exchange raises
\* and leaves the credential as it was, or stores the new token and returns it
TokenFetched(reply) ==
    /\ NeedsFetch
    /\ IF ExchangeTimedOut(reply)
       THEN /\ lastAccess' = Raised("Timeout", NeedsFetch)
            /\ UNCHANGED <<token, token_expires_at, issued>>
       ELSE IF ExchangeRejected(reply)
       THEN /\ lastAccess' = Raised("AuthError", NeedsFetch)
            /\ UNCHANGED <<token, token_expires_at, issued>>
       ELSE /\ token' = issued + 1
            /\ issued' = issued + 1
            /\ token_expires_at' = FetchedExpiry(reply)
            /\ lastAccess' = Returned(issued + 1, TRUE, NeedsFetch, FetchedExpiry(reply))

\* a variant of InvalidatedToken: the rejected token is kept
KeptToken == token

\* self.auth._token = None (line 511)
InvalidatedToken == NoToken

-----------------------------------------------------------------------------
(* GigaChatAuth on its own: accesses, the clock, invalidations *)

ClockSteps == {Minutes(1), Minutes(25)}

AuthAccess ==
    /\ pc = "off"
    /\ \/ TokenCached /\ UNCHANGED now
       \/ \E reply \in AuthReplies :
            /\ issued < MaxIssued
            /\ now + FetchElapsed(reply) <= MaxClock
            /\ TokenFetched(reply)
            /\ now' = now + FetchElapsed(reply)
    /\ UNCHANGED <<auditVars, parseVars, cleanVars, extractVars>>

AuthAdvance ==
    /\ pc = "off"
    /\ \E d \in ClockSteps : now + d <= MaxClock /\ now' = now + d
    /\ UNCHANGED <<token, token_expires_at, issued, lastAccess, auditVars, parseVars, cleanVars, extractVars>>

AuthInvalidate ==
    /\ pc = "off"
    /\ token' = InvalidatedToken
    /\ UNCHANGED <<token_expires_at, now, issued, lastAccess, auditVars, parseVars, cleanVars, extractVars>>

NoResult == [kind |-> "none", exc |-> "", data |-> JNull, raw |-> <<>>]

\* the parts of the state a specification does not use
ParseOff ==
    /\ replyText = <<>>
    /\ parseStage = "off"
    /\ parsed = JNull
    /\ validated = [raised |-> FALSE, val |-> JNull, mismatch |-> FALSE]
CleanOff ==
    /\ cleanStage = "off"
    /\ cleanIn = <<>>
    /\ cleanOnce = <<>>
    /\ cleanTwice = <<>>

ExtractOff ==
    /\ exDoc = <<>>
    /\ exExists = FALSE
    /\ exBackend = "pymupdf"
    /\ exPc = "off"
    /\ exIdx = 0
    /\ exText = <<>>
    /\ exRendered = <<>>
    /\ exOcrPages = <<>>
    /\ exResult = "none"

InitAuthState ==
    /\ token = NoToken
    /\ token_expires_at = NoExpiry
    /\ now = 0
    /\ issued = 0
    /\ lastAccess = NoAccess

InitAuth ==
    /\ InitAuthState
    /\ pc = "off"
    /\ attempt = 0
    /\ bearer = NoToken
    /\ trace = <<>>
    /\ result = NoResult
    /\ ParseOff
    /\ CleanOff
    /\ ExtractOff

NextAuth == AuthAccess \/ AuthAdvance \/ AuthInvalidate
SpecAuth == InitAuth /\ [][NextAuth]_vars

-----------------------------------------------------------------------------
(* InvoiceAuditor.audit *)

\* the literal 2 of "if attempt == 2" (lines 533 and 547)
LastAttempt == 2

\* replies of the completion service that audit is run on
ReplyRecord ==
    <<"{", "\"amount\"", ":", "100", ",", "\"vat\"", ":", "25", ",",
      "\"vat_rate\"", ":", "20", "}">>
ReplySalvaged == <<"\"amount\"", ":", "100">>
ReplyAllNull == <<"{", "\"amount\"", ":", "null", "}">>
ReplyEmptyText == <<>>
ReplyList == <<"[", "100", "]">>
ReplyStrings ==
    <<"{", "\"amount\"", ":", "\"100\"", ",", "\"vat\"", ":", "\"20\"", ",",
      "\"vat_rate\"", ":", "\"20\"", "}">>
Replies == {ReplyRecord, ReplySalvaged, ReplyAllNull, ReplyEmptyText, ReplyList,
            ReplyStrings}

\* line 525 raises: "not result" is true, result has no values(), or every value
\* is None
EmptyCheckRaises(value) ==
    \/ ~Truthy(value)
    \/ value.t # "dict"
    \/ \A k \in DOMAIN value.d : value.d[k] = JNull

\* lines 521-529 return a record
RecordReturned(reply) ==
    /\ ~EmptyCheckRaises(parse_json_robust(reply))
    /\ ~ValidateRaises(parse_json_robust(reply))

FetchEvent(tok, outcome) ==
    [ev |-> "fetch", attempt |-> attempt, tok |-> tok, outcome |-> outcome,
     secs |-> 0, reply |-> <<>>]
PostEvent(outcome, reply) ==
    [ev |-> "post", attempt |-> attempt, tok |-> bearer, outcome |-> outcome,
     secs |-> 0, reply |-> reply]
SleepEvent(secs) ==
    [ev |-> "sleep", attempt |-> attempt, tok |-> NoToken, outcome |-> "",
     secs |-> secs, reply |-> <<>>]

RaisedResult(exc) == [kind |-> "raise", exc |-> exc, data |-> JNull, raw |-> <<>>]
RecordResult(data) == [kind |-> "record", exc |-> "", data |-> data, raw |-> <<>>]
DiagnosticResult(raw) ==
    [kind |-> "diagnostic", exc |-> "JSON parse failed", data |-> JNull, raw |-> raw]

\* a variant of TimeoutWait: the timeout handler sleeps like the other handlers
TimeoutWaitLikeError == ErrorSleep

\* time.sleep(2) of line 544
TimeoutWait == TimeoutSleep
\* time.sleep(1) of lines 540 and 549
ErrorWait == ErrorSleep

\* the for loop takes its next value, or ends and line 551 raises
LoopNext ==
    IF attempt + 1 < MaxAttempts
    THEN /\ attempt' = attempt + 1
         /\ pc' = "token"
         /\ result' = result
    ELSE /\ attempt' = attempt
         /\ pc' = "done"
         /\ result' = RaisedResult("CompletionExhausted")

\* a variant of OnTimeout: the last attempt's timeout is raised again, as the
\* generic handler does
OnTimeoutReraises(evs, elapsed) ==
    IF attempt = LastAttempt
    THEN /\ trace' = trace \o evs
         /\ pc' = "done"
         /\ result' = RaisedResult("Timeout")
         /\ now' = now + elapsed
         /\ attempt' = attempt
    ELSE /\ trace' = trace \o evs \o <<SleepEvent(TimeoutSleep)>>
         /\ now' = now + elapsed + TimeoutSleep
         /\ LoopNext

\* except requests.exceptions.Timeout (lines 542-544), after events evs and
\* elapsed seconds
OnTimeout(evs, elapsed) ==
    /\ trace' = trace \o evs \o <<SleepEvent(TimeoutWait)>>
    /\ now' = now + elapsed + TimeoutWait
    /\ LoopNext

\* except Exception (lines 545-549)
OnException(evs, exc) ==
    IF attempt = LastAttempt
    THEN /\ trace' = trace \o evs
         /\ pc' = "done"
         /\ result' = RaisedResult(exc)
         /\ UNCHANGED <<now, attempt>>
    ELSE /\ trace' = trace \o evs \o <<SleepEvent(ErrorWait)>>
         /\ now' = now + ErrorWait
         /\ LoopNext

\* a variant of OnParseFailure: no diagnostic record, the last attempt's parse
\* failure sleeps and leaves the loop like the earlier ones
OnParseFailureFallsThrough(evs, reply) ==
    /\ trace' = trace \o evs \o <<SleepEvent(ErrorSleep)>>
    /\ now' = now + ErrorSleep
    /\ LoopNext

\* the inner except Exception (lines 531-540)
OnParseFailure(evs, reply) ==
    IF attempt = LastAttempt
    THEN /\ trace' = trace \o evs
         /\ pc' = "done"
         /\ result' = DiagnosticResult(reply)
         /\ UNCHANGED <<now, attempt>>
    ELSE /\ trace' = trace \o evs \o <<SleepEvent(ErrorWait)>>
         /\ now' = now + ErrorWait
         /\ LoopNext

\* lines 509-512: the token is dropped and the loop goes on at once
OnUnauthorized(evs) ==
    /\ trace' = trace \o evs
    /\ token' = InvalidatedToken
    /\ UNCHANGED now
    /\ LoopNext

\* lines 480-489: the text is extracted and cleaned, or extract_text raises
AuditBegin ==
    /\ pc = "begin"
    /\ \/ /\ pc' = "token"
          /\ result' = result
       \/ /\ pc' = "done"
          /\ result' = RaisedResult("ExtractionFailure")
    /\ UNCHANGED <<authVars, attempt, bearer, trace, parseVars, cleanVars, extractVars>>

\* line 496: self.auth.token is evaluated for the headers
AuditToken ==
    /\ pc = "token"
    /\ \/ /\ TokenCached
          /\ bearer' = token
          /\ pc' = "post"
          /\ UNCHANGED <<now, attempt, trace, result>>
       \/ \E reply \in AuthReplies :
            /\ TokenFetched(reply)
            /\ IF ExchangeTimedOut(reply)
               THEN /\ OnTimeout(<<FetchEvent(NoToken, "Timeout")>>, FetchElapsed(reply))
                    /\ UNCHANGED bearer
               ELSE IF ExchangeRejected(reply)
               THEN /\ OnException(<<FetchEvent(NoToken, "AuthError")>>, "AuthError")
                    /\ UNCHANGED bearer
               ELSE /\ bearer' = token'
                    /\ trace' = Append(trace, FetchEvent(token', "ok"))
                    /\ pc' = "post"
                    /\ UNCHANGED <<now, attempt, result>>
    /\ UNCHANGED <<parseVars, cleanVars, extractVars>>

\* lines 493-549: the request is sent and its outcome handled
AuditPost ==
    /\ pc = "post"
    /\ \/ /\ OnTimeout(<<PostEvent("timeout", <<>>)>>, PostTimeout)
          /\ UNCHANGED <<token, token_expires_at, issued, lastAccess, bearer>>
       \/ /\ OnUnauthorized(<<PostEvent("401", <<>>)>>)
          /\ UNCHANGED <<token_expires_at, issued, lastAccess, bearer>>
       \/ /\ OnException(<<PostEvent("error", <<>>)>>, "TransportError")
          /\ UNCHANGED <<token, token_expires_at, issued, lastAccess, bearer>>
       \/ \E reply \in Replies :
            /\ IF RecordReturned(reply)
               THEN /\ trace' = Append(trace, PostEvent("ok", reply))
                    /\ pc' = "done"
                    /\ result' = RecordResult(validate_result(parse_json_robust(reply)))
                    /\ UNCHANGED <<now, attempt>>
               ELSE OnParseFailure(<<PostEvent("ok", reply)>>, reply)
            /\ UNCHANGED <<token, token_expires_at, issued, lastAccess, bearer>>
    /\ UNCHANGED <<parseVars, cleanVars, extractVars>>

Init ==
    /\ InitAuthState
    /\ pc = "begin"
    /\ attempt = 0
    /\ bearer = NoToken
    /\ trace = <<>>
    /\ result = NoResult
    /\ ParseOff
    /\ CleanOff
    /\ ExtractOff

Next == AuditBegin \/ AuditToken \/ AuditPost
Spec == Init /\ [][Next]_vars

-----------------------------------------------------------------------------
(* parse_json_robust and validate_result on their own *)

\* every text over ReplyAlphabet up to the bound, and longer texts that reach
\* each tier with records of several fields
ReplyAlphabet == {"{", "}", "[", "]", ",", ":", "null", "\"amount\"", "100"}
ReplySamples ==
    Replies \cup
    {<<"<fence>json", "{", "\"amount\"", ":", "100", ",", "}", "<fence>">>,
     <<"{", "'amount'", ":", "100", ",", "\"supplier\"", ":", "'A'", "}">>,
     <<"{", "\"amount\"", ":", "1.2.3", ",", "\"date\"", ":", "\"\"", ",",
       "\"payment_date\"", ":", "null", ",", "\"buyer\"", ":", "\"A\"">>,
     <<"{", "\"amount\"", ":", "100", ",", "\"vat\"", ":", "20", ",",
       "\"vat_rate\"", ":", "20", "}">>,
     <<"{", "\"amount\"", ":", "100", ",", "\"vat\"", ":", "\"20\"", ",",
       "\"vat_rate\"", ":", "20", "}">>,
     <<"{", "\"amount\"", ":", "[", "100", "]", ",", "\"vat\"", ":", "20", ",",
       "\"vat_rate\"", ":", "0", "}">>,
     <<"\"amount\"", ":", "100", ",", "\"vat\"", ":", "0", ",",
       "\"vat_rate\"", ":", "20">>}
ReplyTexts ==
    UNION {[1..n -> ReplyAlphabet] : n \in 0..MaxReplyLen} \cup ReplySamples

ParseReply ==
    /\ parseStage = "input"
    /\ parsed' = parse_json_robust(replyText)
    /\ parseStage' = "parsed"
    /\ UNCHANGED <<replyText, validated, authVars, auditVars, cleanVars, extractVars>>

\* audit hands the result to validate_result when the check of line 525 passes
ValidateParsed ==
    /\ parseStage = "parsed"
    /\ ~EmptyCheckRaises(parsed)
    /\ validated' = IF ValidateRaises(parsed)
                    THEN [raised |-> TRUE, val |-> JNull, mismatch |-> FALSE]
                    ELSE [raised |-> FALSE, val |-> validate_result(parsed),
                          mismatch |-> VatMismatch(parsed)]
    /\ parseStage' = "validated"
    /\ UNCHANGED <<replyText, parsed, authVars, auditVars, cleanVars, extractVars>>

InitParse ==
    /\ InitAuthState
    /\ pc = "off"
    /\ attempt = 0
    /\ bearer = NoToken
    /\ trace = <<>>
    /\ result = NoResult
    /\ CleanOff
    /\ ExtractOff
    /\ replyText \in ReplyTexts
    /\ parseStage = "input"
    /\ parsed = JNull
    /\ validated = [raised |-> FALSE, val |-> JNull, mismatch |-> FALSE]

NextParse == ParseReply \/ ValidateParsed
SpecParse == InitParse /\ [][NextParse]_vars

-----------------------------------------------------------------------------
(* clean_pdf_text on its own *)

CleanAlphabet == {"o", "t", "r", " ", "\n", ",", "1"}
CleanSamples ==
    {<<"a", " ", "r", " ", "u", "b">>,
     <<"1", "o", " ", "t", " ", "L">>,
     <<"L", " ", "eh", " ", "l", "ye", "k", "t", "r">>,
     <<"a", " ", "eh", " ", "n", "ye", "r", "g">>,
     <<"s", "ch", " ", "yo", " ", "t">>,
     <<"a", " ", "s", " ", "ch", " ", "yo", " ", "t">>,
     <<"a", " ", "o", " ", "s", "n", "a", "b">>,
     <<"L", " ", " ", " ", "L", " ", ".">>}
CleanTexts ==
    UNION {[1..n -> CleanAlphabet] : n \in 0..MaxTextLen} \cup CleanSamples

CleanFirst ==
    /\ cleanStage = "input"
    /\ cleanOnce' = clean_pdf_text(cleanIn)
    /\ cleanStage' = "once"
    /\ UNCHANGED <<cleanIn, cleanTwice, authVars, auditVars, parseVars, extractVars>>

CleanAgain ==
    /\ cleanStage = "once"
    /\ cleanTwice' = clean_pdf_text(cleanOnce)
    /\ cleanStage' = "twice"
    /\ UNCHANGED <<cleanIn, cleanOnce, authVars, auditVars, parseVars, extractVars>>

InitClean ==
    /\ InitAuthState
    /\ pc = "off"
    /\ attempt = 0
    /\ bearer = NoToken
    /\ trace = <<>>
    /\ result = NoResult
    /\ ParseOff
    /\ ExtractOff
    /\ cleanIn \in CleanTexts
    /\ cleanStage = "input"
    /\ cleanOnce = <<>>
    /\ cleanTwice = <<>>

NextClean == CleanFirst \/ CleanAgain
SpecClean == InitClean /\ [][NextClean]_vars

-----------------------------------------------------------------------------
(* PDFProcessor.extract_text *)

\* a page: what page.extract_text() does on it (text, a blank or no text, an
\* exception) and what rendering and recognising it does
PageKinds ==
    [embedded : {"text", "blank", "error"},
     ocr : {"text", "blank", "render_error", "recognize_error"}]
Documents == UNION {[1..n -> PageKinds] : n \in 0..MaxPages}

EmbeddedText(i) == [page |-> i, via |-> "embedded"]
RecognizedText(i) == [page |-> i, via |-> "ocr"]

\* lines 252-258
ExtractBegin ==
    /\ exPc = "begin"
    /\ IF ~exExists
       THEN exPc' = "done" /\ exResult' = "FileNotFoundError" /\ exIdx' = exIdx
       ELSE IF exDoc = <<>>
       THEN exPc' = "decide" /\ exResult' = exResult /\ exIdx' = exIdx
       ELSE exPc' = "embedded" /\ exResult' = exResult /\ exIdx' = 1
    /\ UNCHANGED <<exDoc, exExists, exBackend, exText, exRendered, exOcrPages>>
    /\ UNCHANGED <<authVars, auditVars, parseVars, cleanVars>>

\* lines 262-273, one page: an exception ends the loop and keeps the text so far
ExtractEmbeddedPage ==
    /\ exPc = "embedded"
    /\ exText' = IF exDoc[exIdx].embedded = "text"
                 THEN Append(exText, EmbeddedText(exIdx)) ELSE exText
    /\ IF exDoc[exIdx].embedded = "error" \/ exIdx = Len(exDoc)
       THEN exPc' = "decide" /\ exIdx' = exIdx
       ELSE exPc' = exPc /\ exIdx' = exIdx + 1
    /\ UNCHANGED <<exDoc, exExists, exBackend, exRendered, exOcrPages, exResult>>
    /\ UNCHANGED <<authVars, auditVars, parseVars, cleanVars>>

\* lines 276-279 and 299: recognition only when no text was found
ExtractDecide ==
    /\ exPc = "decide"
    /\ IF exText # <<>> \/ (exBackend = "pymupdf" /\ exDoc = <<>>)
       THEN exPc' = "finish" /\ exIdx' = exIdx
       ELSE IF exBackend = "pymupdf"
       THEN exPc' = "ocr_pymupdf" /\ exIdx' = 1
       ELSE exPc' = "render" /\ exIdx' = exIdx
    /\ UNCHANGED <<exDoc, exExists, exBackend, exText, exRendered, exOcrPages, exResult>>
    /\ UNCHANGED <<authVars, auditVars, parseVars, cleanVars>>

\* lines 281-298, one page: the except of line 297 ends the loop
OcrPyMuPDFPage ==
    /\ exPc = "ocr_pymupdf"
    /\ exRendered' = Append(exRendered, exIdx)
    /\ exOcrPages' = IF exDoc[exIdx].ocr = "render_error"
                     THEN exOcrPages ELSE Append(exOcrPages, exIdx)
    /\ exText' = IF exDoc[exIdx].ocr = "text"
                 THEN Append(exText, RecognizedText(exIdx)) ELSE exText
    /\ IF exDoc[exIdx].ocr \in {"render_error", "recognize_error"} \/ exIdx = Len(exDoc)
       THEN exPc' = "finish" /\ exIdx' = exIdx
       ELSE exPc' = exPc /\ exIdx' = exIdx + 1
    /\ UNCHANGED <<exDoc, exExists, exBackend, exResult>>
    /\ UNCHANGED <<authVars, auditVars, parseVars, cleanVars>>

\* the page convert_from_path stops at: the first it cannot render, else the last
LastRendered ==
    IF \E i \in DOMAIN exDoc : exDoc[i].ocr = "render_error"
    THEN CHOOSE i \in DOMAIN exDoc :
            /\ exDoc[i].ocr = "render_error"
            /\ \A j \in 1..(i - 1) : exDoc[j].ocr # "render_error"
    ELSE Len(exDoc)

\* line 301: convert_from_path renders every page; its exception leaves
\* extract_text
RenderAllPages ==
    /\ exPc = "render"
    /\ exRendered' = [i \in 1..LastRendered |-> i]
    /\ IF \E i \in DOMAIN exDoc : exDoc[i].ocr = "render_error"
       THEN exPc' = "done" /\ exResult' = "RenderError" /\ exIdx' = exIdx
       ELSE IF exDoc = <<>>
       THEN exPc' = "finish" /\ exResult' = exResult /\ exIdx' = exIdx
       ELSE exPc' = "ocr_pdf2image" /\ exResult' = exResult /\ exIdx' = 1
    /\ UNCHANGED <<exDoc, exExists, exBackend, exText, exOcrPages>>
    /\ UNCHANGED <<authVars, auditVars, parseVars, cleanVars>>

\* lines 302-310, one page: an exception leaves extract_text
OcrPdf2ImagePage ==
    /\ exPc = "ocr_pdf2image"
    /\ exOcrPages' = Append(exOcrPages, exIdx)
    /\ exText' = IF exDoc[exIdx].ocr = "text"
                 THEN Append(exText, RecognizedText(exIdx)) ELSE exText
    /\ IF exDoc[exIdx].ocr = "recognize_error"
       THEN exPc' = "done" /\ exResult' = "RecognitionError" /\ exIdx' = exIdx
       ELSE IF exIdx = Len(exDoc)
       THEN exPc' = "finish" /\ exResult' = exResult /\ exIdx' = exIdx
       ELSE exPc' = exPc /\ exResult' = exResult /\ exIdx' = exIdx + 1
    /\ UNCHANGED <<exDoc, exExists, exBackend, exRendered>>
    /\ UNCHANGED <<authVars, auditVars, parseVars, cleanVars>>

\* lines 312-316
ExtractFinish ==
    /\ exPc = "finish"
    /\ exPc' = "done"
    /\ exResult' = IF exText = <<>> THEN "ValueError" ELSE "text"
    /\ UNCHANGED <<exDoc, exExists, exBackend, exIdx, exText, exRendered, exOcrPages>>
    /\ UNCHANGED <<authVars, auditVars, parseVars, cleanVars>>

InitExtract ==
    /\ InitAuthState
    /\ pc = "off"
    /\ attempt = 0
    /\ bearer = NoToken
    /\ trace = <<>>
    /\ result = NoResult
    /\ ParseOff
    /\ CleanOff
    /\ exDoc \in Documents
    /\ exExists \in BOOLEAN
    /\ exBackend \in {"pymupdf", "pdf2image"}
    /\ exPc = "begin"
    /\ exIdx = 0
    /\ exText = <<>>
    /\ exRendered = <<>>
    /\ exOcrPages = <<>>
    /\ exResult = "none"

NextExtract ==
    \/ ExtractBegin
    \/ ExtractEmbeddedPage
    \/ ExtractDecide
    \/ OcrPyMuPDFPage
    \/ RenderAllPages
    \/ OcrPdf2ImagePage
    \/ ExtractFinish
SpecExtract == InitExtract /\ [][NextExtract]_vars

-----------------------------------------------------------------------------
(* Claims about InvoiceAuditor.audit, checked under Spec *)

Posts == SelectSeq(trace, LAMBDA e : e.ev = "post")
TimedOutPost(i) == trace[i].ev = "post" /\ trace[i].outcome = "timeout"
Unauthorized(i) == trace[i].ev = "post" /\ trace[i].outcome = "401"
RejectedExchange(i) == trace[i].ev = "fetch" /\ trace[i].outcome = "AuthError"

\* a credential exchange that timed out or was rejected: its attempt sends no
\* completion request
FailedExchange(i) == trace[i].ev = "fetch" /\ trace[i].outcome # "ok"
FailedExchanges == SelectSeq(trace, LAMBDA e : e.ev = "fetch" /\ e.outcome # "ok")

\* completion requests were sent, and every one of them timed out
EveryRequestTimedOut ==
    /\ \E i \in DOMAIN trace : trace[i].ev = "post"
    /\ \A i \in DOMAIN trace : trace[i].ev = "post" => TimedOutPost(i)

C1_Witness ==
    /\ pc = "done"
    /\ EveryRequestTimedOut
    /\ FailedExchanges = <<>>
    /\ Len(Posts) = 3
    /\ result = RaisedResult("CompletionExhausted")

TimeoutsUpTo(i) == Cardinality({j \in 1..i : TimedOutPost(j)})

\* C2 as stated: the wait after a timed-out completion request is 1 second
\* after the first timed-out attempt and 2 seconds after the second, and no wait
\* is spent after a timed-out attempt that no retry follows.
C2_LinearBackoff ==
    \A i \in DOMAIN trace :
        TimedOutPost(i) =>
            IF trace[i].attempt < 2
            THEN /\ i < Len(trace)
                 /\ trace[i + 1].ev = "sleep"
                 /\ trace[i + 1].secs = TimeoutsUpTo(i)
            ELSE i = Len(trace)

\* C2 amended: the wait after a timed-out completion request is 2 seconds after
\* every timed-out attempt; after the first and the second the next attempt
\* follows, and the 2 seconds are also spent after the third, which no retry
\* follows: the run then ends with CompletionExhausted.
C2_TwoSecondsAfterEveryTimeout ==
    \A i \in DOMAIN trace :
        TimedOutPost(i) =>
            /\ i < Len(trace)
            /\ trace[i + 1].ev = "sleep"
            /\ trace[i + 1].secs = 2
            /\ (trace[i].attempt < 2 /\ i + 1 = Len(trace)) =>
                  (pc \in {"token", "post"} /\ attempt = trace[i].attempt + 1)
            /\ trace[i].attempt = 2 =>
                  /\ i + 1 = Len(trace)
                  /\ pc = "done"
                  /\ result = RaisedResult("CompletionExhausted")

C2_Witness ==
    /\ \E i \in DOMAIN trace : TimedOutPost(i) /\ trace[i].attempt = 0
    /\ \E i \in DOMAIN trace : TimedOutPost(i) /\ trace[i].attempt = 2

\* C3: when a completion request is answered with 401, the credential is
\* invalidated (the broker is Unset), the next attempt starts at once with no
\* wait (what follows the 401 is the credential exchange of the next attempt),
\* and every later completion request carries a token that an exchange made
\* after the 401 returned: the rejected token is not sent again.
C3_UnauthorizedRefetches ==
    \A i \in DOMAIN trace :
        Unauthorized(i) =>
            /\ i = Len(trace) => token = NoToken
            /\ (i = Len(trace) /\ trace[i].attempt < 2) =>
                  (pc = "token" /\ attempt = trace[i].attempt + 1)
            /\ i < Len(trace) => trace[i + 1].ev = "fetch"
            /\ \A j \in (i + 1)..Len(trace) :
                  trace[j].ev = "post" =>
                      /\ trace[j].tok # trace[i].tok
                      /\ \E k \in (i + 1)..(j - 1) :
                            /\ trace[k].ev = "fetch"
                            /\ trace[k].outcome = "ok"
                            /\ trace[k].tok = trace[j].tok

C3_Witness ==
    \E i \in DOMAIN trace :
        /\ Unauthorized(i)
        /\ \E j \in (i + 1)..Len(trace) : trace[j].ev = "post"

\* a recovered record that is empty or has every field unset
AllUnset(v) == v.t = "dict" /\ \A k \in DOMAIN v.d : v.d[k] = JNull
EmptyReplyPost(i) ==
    /\ trace[i].ev = "post"
    /\ trace[i].outcome = "ok"
    /\ AllUnset(parse_json_robust(trace[i].reply))

\* C4 as stated: a successful reply whose recovered record is empty or all unset
\* is a failed attempt that is retried after a wait, and when all 3 attempts end
\* so, the run fails with CompletionExhausted and returns no value.
C4_EmptyRepliesExhaust ==
    /\ \A i \in DOMAIN trace :
          (EmptyReplyPost(i) /\ trace[i].attempt < 2) =>
              (i < Len(trace) /\ trace[i + 1].ev = "sleep")
    /\ (/\ pc = "done"
        /\ Len(Posts) = 3
        /\ \A i \in DOMAIN trace : trace[i].ev = "post" => EmptyReplyPost(i)) =>
          result = RaisedResult("CompletionExhausted")

\* C4 amended: a successful reply whose recovered record is empty or all unset
\* is a failed attempt: on the first and the second attempt it is retried after
\* the 1 second wait of the other failures that are no timeout; on the third
\* attempt the run returns the diagnostic record holding the raw reply.  No
\* empty or all-unset record is returned, and CompletionExhausted is raised only
\* when the third attempt ends in a timeout or a 401.
C4_EmptyReplyRetriedThenDiagnostic ==
    /\ \A i \in DOMAIN trace :
          EmptyReplyPost(i) =>
              IF trace[i].attempt < 2
              THEN /\ i < Len(trace)
                   /\ trace[i + 1].ev = "sleep"
                   /\ trace[i + 1].secs = 1
              ELSE /\ i = Len(trace)
                   /\ pc = "done"
                   /\ result = DiagnosticResult(trace[i].reply)
    /\ result.kind = "record" => ~AllUnset(result.data)
    /\ result.exc = "CompletionExhausted" =>
          \E i \in DOMAIN trace :
              /\ trace[i].attempt = 2
              /\ trace[i].ev \in {"post", "fetch"}
              /\ trace[i].outcome \in {"timeout", "401", "Timeout"}

C4_Witness ==
    /\ pc = "done"
    /\ Len(Posts) = 3
    /\ \A i \in DOMAIN trace : trace[i].ev = "post" => EmptyReplyPost(i)
    /\ result.kind = "diagnostic"

\* C8: a rejected credential exchange is fatal and is not retried: once an
\* exchange raises AuthError, audit makes no further exchange and no further
\* completion request, and the AuthError reaches the caller.
C8_AuthErrorIsFatal ==
    \A i \in DOMAIN trace :
        RejectedExchange(i) =>
            /\ i = Len(trace)
            /\ pc = "done"
            /\ result = RaisedResult("AuthError")

-----------------------------------------------------------------------------
(* Claims about GigaChatAuth, checked under SpecAuth *)

\* C7: the accessor fetches exactly when the credential is Unset or the clock
\* has reached expiry minus 5 minutes, and every token it returns is valid when
\* it is returned: now < expiry - 5 minutes.
C7_AccessorReturnsValidToken ==
    /\ lastAccess.kind # "none" => lastAccess.fetched = lastAccess.needed
    /\ lastAccess.kind = "return" => lastAccess.valid

-----------------------------------------------------------------------------
(* Claims about parse_json_robust and validate_result, checked under SpecParse *)

\* C5: for every text, parse_json_robust returns a mapping that holds all ten
\* keys, each set or unset, whichever tier produced it.
C5_AllTenKeys ==
    parseStage \in {"parsed", "validated"} =>
        (parsed.t = "dict" /\ DOMAIN parsed.d = FieldSet)

\* amount, vat and vat_rate are all present in the record as numbers, the value
\* 0 counting as present
TaxFieldsPresent(data) ==
    \A f \in NumericFields : f \in DOMAIN data.d /\ IsNumber(data.d[f])

\* |vat - amount * vat_rate / 100| > 0.01, in hundredths
TaxDiffers(data) ==
    LET diff == 100 * data.d["vat"].n - data.d["amount"].n * data.d["vat_rate"].n
    IN  (IF diff < 0 THEN -diff ELSE diff) > 1

\* a record whose amount, vat and vat_rate are each a number, unset or missing
TaxFieldsNumeric(data) ==
    /\ data.t = "dict"
    /\ \A f \in NumericFields :
          f \in DOMAIN data.d => (data.d[f] = JNull \/ IsNumber(data.d[f]))

\* C11: validate_result reports a tax mismatch exactly when amount, vat and
\* vat_rate are all present (the value 0 counting as present) and
\* |vat - amount * vat_rate / 100| > 0.01; a present vat of 0 against a non-zero
\* expected tax is reported.
C11_MismatchExactlyWhenPresentAndOff ==
    (parseStage = "validated" /\ TaxFieldsNumeric(parsed)) =>
        /\ ~validated.raised
        /\ validated.mismatch <=> (TaxFieldsPresent(parsed) /\ TaxDiffers(parsed))

\* C10: for every value parse_json_robust returns that passes the non-empty
\* check, validate_result raises no error and returns the record unchanged.
C10_ValidateNeverFails ==
    parseStage = "validated" => (~validated.raised /\ validated.val = parsed)

-----------------------------------------------------------------------------
(* Claims about clean_pdf_text, checked under SpecClean *)

\* C6: clean_pdf_text is idempotent: cleaning a cleaned text changes nothing.
C6_Idempotent == cleanStage = "twice" => cleanTwice = cleanOnce

-----------------------------------------------------------------------------
(* Claims about extract_text, checked under SpecExtract *)

EmbeddedBlank == \A i \in DOMAIN exDoc : exDoc[i].embedded = "blank"
EmbeddedNonBlank ==
    /\ \E i \in DOMAIN exDoc : exDoc[i].embedded = "text"
    /\ \A i \in DOMAIN exDoc : exDoc[i].embedded # "error"

\* the fallback was invoked for page i: recognition was started on it, or its
\* rendering was started and raised
FallbackInvoked(i) ==
    \/ \E k \in DOMAIN exOcrPages : exOcrPages[k] = i
    \/ /\ exDoc[i].ocr = "render_error"
       /\ \E k \in DOMAIN exRendered : exRendered[k] = i
InPageOrder(pages) ==
    \A k \in DOMAIN pages : \A m \in DOMAIN pages : k < m => pages[k] < pages[m]

\* C9: for a document whose embedded text is blank on all pages the fallback is
\* invoked once for every page, in page order, with either backend and also when
\* an earlier page raises; for a document with embedded text it is invoked for
\* no page.
C9_FallbackCoversEveryPage ==
    (exPc = "done" /\ exExists) =>
        /\ EmbeddedBlank =>
              /\ \A i \in DOMAIN exDoc : FallbackInvoked(i)
              /\ InPageOrder(exRendered) /\ InPageOrder(exOcrPages)
        /\ EmbeddedNonBlank => (exRendered = <<>> /\ exOcrPages = <<>>)

=============================================================================
